---- MODULE Spec2Model ----
(***************************************************************************)
(* Tenant-scoped course / enrollment management of app/crud/courses.py and *)
(* app/crud/student.py over two document collections (courses, students).  *)
(* Every store operation (find_one, insert_one, update_one, delete_one,    *)
(* find_one_and_update, find) is one atomic step; a coroutine may be       *)
(* interleaved with the others between two of its store operations.        *)
(***************************************************************************)
EXTENDS Integers, Sequences, FiniteSets, TLC

(***************************************************************************)
(* Bounds of the model.                                                    *)
(***************************************************************************)
\* number of ObjectIds the store can generate (documents ever inserted)
NumOids == 2
\* number of coroutines that can be in flight at once
NumTasks == 2
\* number of CourseCRUD calls started in one behaviour
MaxCalls == 3
\* largest value of the wall clock
MaxClock == 1

(***************************************************************************)
(* Python str values are sequences of one-character strings.               *)
(***************************************************************************)
UpperChars == <<"A", "B", "C", "D", "E", "F", "G", "H", "I", "J", "K", "L", "M",
                "N", "O", "P", "Q", "R", "S", "T", "U", "V", "W", "X", "Y", "Z">>

LowerChars == <<"a", "b", "c", "d", "e", "f", "g", "h", "i", "j", "k", "l", "m",
                "n", "o", "p", "q", "r", "s", "t", "u", "v", "w", "x", "y", "z">>

WhiteChars == {" ", "\t", "\n", "\r"}

DigitChars == <<"0", "1", "2", "3", "4", "5", "6", "7", "8", "9">>

\* the characters of the model's strings
Alphabet ==
    {UpperChars[i] : i \in 1..Len(UpperChars)} \cup {LowerChars[i] : i \in 1..Len(LowerChars)}
        \cup {DigitChars[i] : i \in 1..Len(DigitChars)} \cup WhiteChars

\* str.lower() and str.upper() on one character, as tables
LowerTable ==
    [c \in Alphabet |->
        IF \E i \in 1..Len(UpperChars) : UpperChars[i] = c
        THEN LowerChars[CHOOSE i \in 1..Len(UpperChars) : UpperChars[i] = c]
        ELSE c]

UpperTable ==
    [c \in Alphabet |->
        IF \E i \in 1..Len(LowerChars) : LowerChars[i] = c
        THEN UpperChars[CHOOSE i \in 1..Len(LowerChars) : LowerChars[i] = c]
        ELSE c]

LowerChar(c) == LowerTable[c]

\* str.lower()
Lower(s) == [i \in 1..Len(s) |-> LowerChar(s[i])]

RECURSIVE LStrip(_)
LStrip(s) ==
    IF s # <<>> /\ Head(s) \in WhiteChars THEN LStrip(Tail(s)) ELSE s

RECURSIVE RStrip(_)
RStrip(s) ==
    IF s # <<>> /\ s[Len(s)] \in WhiteChars
    THEN RStrip(SubSeq(s, 1, Len(s) - 1))
    ELSE s

\* str.strip()
Strip(s) == RStrip(LStrip(s))

\* the Swagger placeholder "string"
PlaceholderStr == <<"s", "t", "r", "i", "n", "g">>

(***************************************************************************)
(* bson.ObjectId: twelve bytes, written as 24 hexadecimal digits.  An      *)
(* ObjectId value is the sequence of its 24 nibbles; the constructor       *)
(* parses hexadecimal digits of either case and str() writes lower case.   *)
(***************************************************************************)
OidLen == 24

HexDigits == <<"0", "1", "2", "3", "4", "5", "6", "7", "8", "9",
               "a", "b", "c", "d", "e", "f">>

\* the value of a hexadecimal digit of either case, -1 for any other character
HexTable ==
    [c \in Alphabet |->
        IF \E i \in 1..Len(HexDigits) : HexDigits[i] = LowerTable[c]
        THEN (CHOOSE i \in 1..Len(HexDigits) : HexDigits[i] = LowerTable[c]) - 1
        ELSE -1]

IsHexChar(c) == HexTable[c] >= 0

HexVal(c) == HexTable[c]

\* ObjectId.is_valid(s) for a str s
ObjectIdIsValid(s) ==
    /\ Len(s) = OidLen
    /\ \A i \in 1..Len(s) : IsHexChar(s[i])

\* ObjectId(s) for a valid str s
ObjectId(s) == [i \in 1..OidLen |-> HexVal(s[i])]

\* str(oid)
OidStr(oid) == [i \in 1..OidLen |-> HexDigits[oid[i] + 1]]

\* the n-th ObjectId the store generates: 0000...00a<n>
GenOid(n) == [i \in 1..OidLen |-> IF i = OidLen THEN n
                                  ELSE IF i = OidLen - 1 THEN 10 ELSE 0]

(***************************************************************************)
(* Values of the updatable course fields (None, str, list of module dicts) *)
(* carry a tag, as Python values carry their type.                         *)
(***************************************************************************)
VNone == [kind |-> "none", s |-> <<>>, items |-> <<>>]

VStr(chars) == [kind |-> "str", s |-> chars, items |-> <<>>]

VList(items) == [kind |-> "list", s |-> <<>>, items |-> items]

\* ModuleSchema.dict()
ModuleDict(title) == [title |-> title, order |-> 0]

\* the per-entry test with no exception for thumbnailUrl
KeepEntryNoThumbnailRule(key, value) ==
    /\ ~(value.kind = "none")
    /\ ~(value.kind = "str" /\ Lower(Strip(value.s)) = PlaceholderStr)
    /\ ~(value.kind = "str" /\ Strip(value.s) = <<>>)
    /\ ~(/\ value.kind = "list"
         /\ Len(value.items) > 0
         /\ \A i \in 1..Len(value.items) :
                Lower(Strip(value.items[i].title)) = PlaceholderStr)
    /\ ~(value.kind = "list" /\ Len(value.items) = 0 /\ key # "modules")

\* the per-entry test with no exception for modules
KeepEntryNoModulesRule(key, value) ==
    /\ ~(value.kind = "none")
    /\ ~(value.kind = "str" /\ Lower(Strip(value.s)) = PlaceholderStr)
    /\ ~(value.kind = "str" /\ Strip(value.s) = <<>> /\ key # "thumbnailUrl")
    /\ ~(/\ value.kind = "list"
         /\ Len(value.items) > 0
         /\ \A i \in 1..Len(value.items) :
                Lower(Strip(value.items[i].title)) = PlaceholderStr)
    /\ ~(value.kind = "list" /\ Len(value.items) = 0)

\* the per-entry test of clean_update_data: TRUE when (key, value) is retained
KeepEntry(key, value) ==
    /\ ~(value.kind = "none")
    /\ ~(value.kind = "str" /\ Lower(Strip(value.s)) = PlaceholderStr)
    /\ ~(value.kind = "str" /\ Strip(value.s) = <<>> /\ key # "thumbnailUrl")
    /\ ~(/\ value.kind = "list"
         /\ Len(value.items) > 0
         /\ \A i \in 1..Len(value.items) :
                Lower(Strip(value.items[i].title)) = PlaceholderStr)
    /\ ~(value.kind = "list" /\ Len(value.items) = 0 /\ key # "modules")

\* a sanitizer that drops only None and the exact placeholder and stores the
\* strings it keeps trimmed and lower-cased
clean_update_data_normalizing(update_dict) ==
    [key \in {k \in DOMAIN update_dict :
                 /\ update_dict[k].kind # "none"
                 /\ ~(update_dict[k].kind = "str" /\ update_dict[k].s = PlaceholderStr)}
        |-> IF update_dict[key].kind = "str"
            THEN VStr(Lower(Strip(update_dict[key].s)))
            ELSE update_dict[key]]

\* CourseCRUD.clean_update_data: a dict is a function from its keys
clean_update_data(update_dict) ==
    [key \in {k \in DOMAIN update_dict : KeepEntry(k, update_dict[k])}
        |-> update_dict[key]]

(***************************************************************************)
(* Documents and the store primitives.  A collection is the sequence of    *)
(* its documents in insertion order; an optional document is a sequence of *)
(* length 0 or 1.                                                          *)
(***************************************************************************)
Tenants == {"tA", "tB"}

MinOf(S) == CHOOSE x \in S : \A y \in S : x <= y

\* find_one by _id alone, whatever tenant is asked for
FindOneIgnoringTenant(coll, oid, tenantId) ==
    LET I == {i \in 1..Len(coll) : coll[i]._id = oid}
    IN  IF I = {} THEN <<>> ELSE <<coll[MinOf(I)]>>

\* collection.find_one({"_id": oid, "tenantId": tenantId})
FindOneIdTenant(coll, oid, tenantId) ==
    LET I == {i \in 1..Len(coll) : coll[i]._id = oid /\ coll[i].tenantId = tenantId}
    IN  IF I = {} THEN <<>> ELSE <<coll[MinOf(I)]>>

\* a find_one that never finds
FindOneNothing(coll, oid) == <<>>

\* collection.find_one({"_id": oid})
FindOneId(coll, oid) ==
    LET I == {i \in 1..Len(coll) : coll[i]._id = oid}
    IN  IF I = {} THEN <<>> ELSE <<coll[MinOf(I)]>>

\* {"$addToSet": {"enrolledCourses": course_id}} on one document
AddToSet(doc, course_id) ==
    IF \E i \in 1..Len(doc.enrolledCourses) : doc.enrolledCourses[i] = course_id
    THEN doc
    ELSE [doc EXCEPT !.enrolledCourses = Append(@, course_id)]

\* {"$pull": {"enrolledCourses": course_id}} on one document
Pull(doc, course_id) ==
    [doc EXCEPT !.enrolledCourses = SelectSeq(@, LAMBDA c : c # course_id)]

\* {"$inc": {"enrolledStudents": d}} on one document
Inc(doc, d) == [doc EXCEPT !.enrolledStudents = @ + d]

\* a replacement of the document that keeps every field but the tenant
SetFieldsLosingTenant(doc, data) ==
    [k \in DOMAIN doc |-> IF k \in DOMAIN data THEN data[k]
                          ELSE IF k = "tenantId" THEN "" ELSE doc[k]]

\* {"$set": data} on one document
SetFields(doc, data) ==
    [k \in DOMAIN doc |-> IF k \in DOMAIN data THEN data[k] ELSE doc[k]]

\* the first document with this _id, whatever tenant is asked for
FirstMatchAnyTenant(coll, oid, tenantId) ==
    LET I == {i \in 1..Len(coll) : coll[i]._id = oid}
    IN  IF I = {} THEN 0 ELSE MinOf(I)

\* the first document of the collection matching (oid, tenantId), 0 for none
FirstMatch(coll, oid, tenantId) ==
    LET I == {i \in 1..Len(coll) : coll[i]._id = oid /\ coll[i].tenantId = tenantId}
    IN  IF I = {} THEN 0 ELSE MinOf(I)

\* cursor.to_list(length=100) of get_student_courses
ToListLength == 100

\* str(course["_id"]) stored back into the returned document
WithStrId(doc) == [doc EXCEPT !._id = OidStr(@)]

(***************************************************************************)
(* Inputs of the calls, drawn from small sets.                             *)
(***************************************************************************)
UpperChar(c) == UpperTable[c]

\* the lower-case and the upper-case spelling of the n-th generated ObjectId
LowerId(n) == OidStr(GenOid(n))

UpperId(n) == [i \in 1..OidLen |-> UpperChar(LowerId(n)[i])]

\* ids that are no ObjectId: too short, and 24 characters with a non-hex one
ShortId == <<"a", "1">>

NonHexId == [i \in 1..OidLen |-> IF i = OidLen THEN "z" ELSE "0"]

\* number of generated ObjectIds the callers also spell in upper case
NumAltSpellings == 1

\* the well-formed ids the callers pass
ValidIds ==
    {LowerId(n) : n \in 1..NumOids} \cup {UpperId(n) : n \in 1..NumAltSpellings}

\* the ids the callers pass as course_id and as student_id
CourseIdArgs == ValidIds \cup {ShortId}

StudentIdArgs == {LowerId(n) : n \in 1..NumOids} \cup {NonHexId}

TitleAlg == <<"A", "l", "g">>

TitleBio == <<"B", "i", "o">>

CategoryMath == <<"M", "a", "t", "h">>

StatusActive == <<"A", "c", "t", "i", "v", "e">>

TeacherOne == <<"t", "1">>

\* CourseCreate(...).dict(): the fields of CourseBase and of CourseCreate
CourseCreateDict(tenantId, enrolledStudents) ==
    [title |-> VStr(TitleAlg), description |-> VNone, category |-> VStr(CategoryMath),
     status |-> VStr(StatusActive), courseCode |-> VNone, duration |-> VNone,
     thumbnailUrl |-> VStr(<<>>), modules |-> VList(<<>>), teacherId |-> TeacherOne,
     tenantId |-> tenantId, enrolledStudents |-> enrolledStudents]

\* values of enrolledStudents a CourseCreate payload carries
InputCounts == {0, 7}

\* CourseUpdate(...).dict(exclude_unset=True): only the fields the caller set
EmptyDict == [k \in {} |-> VNone]

UpdatePayloads ==
    << EmptyDict,
       [title |-> VStr(<<"S", "t", "r", "i", "n", "g", " ">>), description |-> VStr(<<>>),
        courseCode |-> VNone, modules |-> VList(<<ModuleDict(PlaceholderStr)>>)],
       [title |-> VStr(TitleBio), duration |-> VStr(<<" ">>)],
       [thumbnailUrl |-> VStr(<<>>), modules |-> VList(<<>>)] >>

\* the arguments of get_all_courses: filters and pagination
ListQueries ==
    << [teacher_id |-> VNone, status |-> VNone, category |-> VNone, search |-> VNone,
       skip |-> 0, limit |-> 100],
      [teacher_id |-> VStr(TeacherOne), status |-> VStr(StatusActive \o <<" ">>),
       category |-> VNone, search |-> VNone, skip |-> 0, limit |-> 1],
      [teacher_id |-> VNone, status |-> VNone, category |-> VStr(<<" ">> \o CategoryMath),
       search |-> VStr(<<"A", "L">>), skip |-> 1, limit |-> 100] >>

(***************************************************************************)
(* get_all_courses: the query and its evaluation on one document.          *)
(***************************************************************************)
\* Python truthiness of an Optional[str]
Truthy(v) == v.kind = "str" /\ v.s # <<>>

\* {"$regex": pattern, "$options": "i"} for a pattern of literal characters
RegexFound(pattern, chars) ==
    \E i \in 0..(Len(chars) - Len(pattern)) :
        Lower(SubSeq(chars, i + 1, i + Len(pattern))) = Lower(pattern)

\* the query dict built by get_all_courses, evaluated on doc
QueryMatches(doc, tenantId, q) ==
    /\ doc.tenantId = tenantId
    /\ Truthy(q.teacher_id) => doc.teacherId = q.teacher_id.s
    /\ Truthy(q.status) =>
           doc.status.kind = "str" /\ doc.status.s = Strip(q.status.s)
    /\ Truthy(q.category) =>
           doc.category.kind = "str" /\ doc.category.s = Strip(q.category.s)
    /\ Truthy(q.search) =>
           \E f \in {"title", "description", "category"} :
               doc[f].kind = "str" /\ RegexFound(Strip(q.search.s), doc[f].s)

\* cursor.skip(skip).limit(limit).to_list(length=limit)
SkipLimit(docs, skip, limit) ==
    SubSeq(docs, skip + 1, IF skip + limit < Len(docs) THEN skip + limit ELSE Len(docs))

\* collection.find(query).skip(skip).limit(limit), each _id turned into a str
FindAll(coll, tenantId, q) ==
    LET hits == SelectSeq(coll, LAMBDA d : QueryMatches(d, tenantId, q))
        page == SkipLimit(hits, q.skip, q.limit)
    IN  [i \in 1..Len(page) |-> WithStrId(page[i])]

\* collection.find({"_id": {"$in": course_ids}}).to_list(length=100)
FindIn(coll, oids) ==
    LET hits == SelectSeq(coll, LAMBDA d : d._id \in oids)
        page == SkipLimit(hits, 0, ToListLength)
    IN  [i \in 1..Len(page) |-> WithStrId(page[i])]

(***************************************************************************)
(* State.                                                                  *)
(***************************************************************************)
VARIABLES
    courses,    \* the courses collection: documents in insertion order
    students,   \* the students collection: documents in insertion order
    tasks,      \* the coroutines: position, arguments, locals and result
    clock,      \* the value datetime.utcnow() returns
    nextOid,    \* how many ObjectIds the store has generated, plus one
    calls       \* how many CourseCRUD calls have started

vars == <<courses, students, tasks, clock, nextOid, calls>>

Tasks == 1..NumTasks

\* the fields of a coroutine: pc (its position), op (the operation), its
\* arguments course_id, student_id, tenantId and course_update (the payload
\* of update_course), its locals data (cleaned_data, or the arguments of
\* get_all_courses), course and student (the documents it read), and result

\* the value a call returns: a dict {success, message}, a document, None,
\* a bool, or a list of documents
Res(kind, ok, msg, id, docs) ==
    [kind |-> kind, ok |-> ok, msg |-> msg, id |-> id, docs |-> docs]

NoResult == Res("none", FALSE, "", <<>>, <<>>)

IdleTask ==
    [pc |-> "idle", op |-> "none", course_id |-> <<>>, student_id |-> <<>>,
     tenantId |-> "", course_update |-> EmptyDict, data |-> EmptyDict,
     course |-> <<>>, student |-> <<>>, result |-> NoResult]

Init ==
    /\ courses = <<>>
    /\ students = <<>>
    /\ tasks = [t \in Tasks |-> IdleTask]
    /\ clock = 0
    /\ nextOid = 1
    /\ calls = 0

\* a call may start on task t: the first free one
CanCall(t) ==
    /\ tasks[t].pc = "idle"
    /\ \A u \in 1..(t - 1) : tasks[u].pc # "idle"
    /\ calls < MaxCalls

\* the task returns r
Done(task, r) == [task EXCEPT !.pc = "done", !.result = r]

(***************************************************************************)
(* datetime.utcnow(): the wall clock has advanced by d since the last      *)
(* reading, within the bound.                                              *)
(***************************************************************************)
ClockSteps == {d \in 0..1 : clock + d <= MaxClock}

(***************************************************************************)
(* create_course and create_student: one insert each.  The two utcnow()    *)
(* calls read the clock one after the other.                               *)
(***************************************************************************)
\* the document create_course inserts, given the two clock readings
NewCourseDoc(course_dict, oid, t1, t2) ==
    [_id |-> oid, title |-> course_dict.title, description |-> course_dict.description,
     category |-> course_dict.category, status |-> course_dict.status,
     courseCode |-> course_dict.courseCode, duration |-> course_dict.duration,
     thumbnailUrl |-> course_dict.thumbnailUrl, modules |-> course_dict.modules,
     teacherId |-> course_dict.teacherId, tenantId |-> course_dict.tenantId,
     createdAt |-> t1, updatedAt |-> t2, enrolledStudents |-> 0]

create_course ==
    \E tenantId \in Tenants, n \in InputCounts, d \in ClockSteps :
        /\ nextOid <= NumOids
        /\ courses' = Append(courses,
               NewCourseDoc(CourseCreateDict(tenantId, n), GenOid(nextOid),
                            clock, clock + d))
        /\ clock' = clock + d
        /\ nextOid' = nextOid + 1
        /\ UNCHANGED <<students, tasks, calls>>

\* the document create_student inserts: the fields the course operations read
\* or write (the fields of StudentCreate and the two timestamps are never read)
NewStudentDoc(tenantId, oid) ==
    [_id |-> oid, tenantId |-> tenantId, enrolledCourses |-> <<>>,
     completedCourses |-> <<>>]

create_student ==
    \E tenantId \in Tenants :
        /\ nextOid <= NumOids
        /\ students' = Append(students, NewStudentDoc(tenantId, GenOid(nextOid)))
        /\ nextOid' = nextOid + 1
        /\ UNCHANGED <<courses, tasks, clock, calls>>

(***************************************************************************)
(* enroll_student.                                                         *)
(***************************************************************************)
\* the two validations in the other order
ValidateIdsStudentFirst(task, first_pc) ==
    IF ~ObjectIdIsValid(task.student_id)
    THEN Done(task, Res("dict", FALSE, "Invalid student ID format", task.student_id, <<>>))
    ELSE IF ~ObjectIdIsValid(task.course_id)
    THEN Done(task, Res("dict", FALSE, "Invalid course ID format", task.course_id, <<>>))
    ELSE [task EXCEPT !.pc = first_pc]

\* validation of the two ids, before the first store operation
ValidateIds(task, first_pc) ==
    IF ~ObjectIdIsValid(task.course_id)
    THEN Done(task, Res("dict", FALSE, "Invalid course ID format", task.course_id, <<>>))
    ELSE IF ~ObjectIdIsValid(task.student_id)
    THEN Done(task, Res("dict", FALSE, "Invalid student ID format", task.student_id, <<>>))
    ELSE [task EXCEPT !.pc = first_pc]

CallEnroll(t, cids, sids, tenants) ==
    \E course_id \in cids, student_id \in sids, tenantId \in tenants :
        /\ CanCall(t)
        /\ calls' = calls + 1
        /\ tasks' = [tasks EXCEPT ![t] =
               ValidateIds([IdleTask EXCEPT !.op = "enroll_student",
                                            !.course_id = course_id,
                                            !.student_id = student_id,
                                            !.tenantId = tenantId],
                           "e_findCourse")]
        /\ UNCHANGED <<courses, students, clock, nextOid>>

\* the tenant-scoped course lookup shared by enroll_student and unenroll_student
AfterFindCourse(task, course, found_pc, missing) ==
    IF course = <<>> THEN missing ELSE [task EXCEPT !.pc = found_pc, !.course = course]

\* the course lookup of enroll_student without the tenant in its filter
EnrollFindCourseAnyTenant(t) ==
    LET task == tasks[t]
        course == FindOneId(courses, ObjectId(task.course_id))
    IN  /\ task.pc = "e_findCourse"
        /\ tasks' = [tasks EXCEPT ![t] =
               AfterFindCourse(task, course, "e_findStudent",
                               [task EXCEPT !.pc = "e_findCourseAny"])]
        /\ UNCHANGED <<courses, students, clock, nextOid, calls>>

EnrollFindCourse(t) ==
    LET task == tasks[t]
        course == FindOneIdTenant(courses, ObjectId(task.course_id), task.tenantId)
    IN  /\ task.pc = "e_findCourse"
        /\ tasks' = [tasks EXCEPT ![t] =
               AfterFindCourse(task, course, "e_findStudent",
                               [task EXCEPT !.pc = "e_findCourseAny"])]
        /\ UNCHANGED <<courses, students, clock, nextOid, calls>>

EnrollFindCourseAny(t) ==
    LET task == tasks[t]
        course_exists == FindOneId(courses, ObjectId(task.course_id))
    IN  /\ task.pc = "e_findCourseAny"
        /\ tasks' = [tasks EXCEPT ![t] =
               IF course_exists # <<>>
               THEN Done(task, Res("dict", FALSE,
                         "Course found but belongs to different tenant", <<>>, <<>>))
               ELSE Done(task, Res("dict", FALSE, "Course not found with ID",
                         task.course_id, <<>>))]
        /\ UNCHANGED <<courses, students, clock, nextOid, calls>>

\* course_id in student.get("enrolledCourses", [])
IsEnrolled(student_doc, course_id) ==
    \E i \in 1..Len(student_doc.enrolledCourses) :
        student_doc.enrolledCourses[i] = course_id

\* enroll_student without its already-enrolled check
AfterEnrollCheckMissing(task, student) ==
    [task EXCEPT !.pc = "e_addToSet", !.student = student]

\* the already-enrolled check of enroll_student on the student it read
AfterEnrollCheck(task, student) ==
    IF IsEnrolled(student[1], task.course_id)
    THEN Done([task EXCEPT !.student = student],
              Res("dict", FALSE, "Student is already enrolled in this course", <<>>, <<>>))
    ELSE [task EXCEPT !.pc = "e_addToSet", !.student = student]

EnrollFindStudent(t) ==
    LET task == tasks[t]
        student == FindOneIdTenant(students, ObjectId(task.student_id), task.tenantId)
    IN  /\ task.pc = "e_findStudent"
        /\ tasks' = [tasks EXCEPT ![t] =
               IF student = <<>>
               THEN [task EXCEPT !.pc = "e_findStudentAny"]
               ELSE AfterEnrollCheck(task, student)]
        /\ UNCHANGED <<courses, students, clock, nextOid, calls>>

EnrollFindStudentAny(t) ==
    LET task == tasks[t]
        student_exists == FindOneId(students, ObjectId(task.student_id))
    IN  /\ task.pc = "e_findStudentAny"
        /\ tasks' = [tasks EXCEPT ![t] =
               IF student_exists # <<>>
               THEN Done(task, Res("dict", FALSE,
                         "Student found but belongs to different tenant", <<>>, <<>>))
               ELSE Done(task, Res("dict", FALSE, "Student not found with ID",
                         task.student_id, <<>>))]
        /\ UNCHANGED <<courses, students, clock, nextOid, calls>>

\* $push in place of $addToSet
EnrollStudentPush(doc, course_id) ==
    [doc EXCEPT !.enrolledCourses = Append(@, course_id)]

\* the write of enroll_student to the student document: $addToSet
EnrollStudentWrite(doc, course_id) == AddToSet(doc, course_id)

\* the write of enroll_student to the course document: $inc by 1
EnrollCourseWrite(doc) == Inc(doc, 1)

EnrollAddToSet(t) ==
    LET task == tasks[t]
        i == FirstMatch(students, ObjectId(task.student_id), task.tenantId)
    IN  /\ task.pc = "e_addToSet"
        /\ students' = IF i = 0 THEN students
                       ELSE [students EXCEPT ![i] = EnrollStudentWrite(@, task.course_id)]
        /\ tasks' = [tasks EXCEPT ![t].pc = "e_inc"]
        /\ UNCHANGED <<courses, clock, nextOid, calls>>

EnrollInc(t) ==
    LET task == tasks[t]
        i == FirstMatch(courses, ObjectId(task.course_id), task.tenantId)
    IN  /\ task.pc = "e_inc"
        /\ courses' = IF i = 0 THEN courses
                      ELSE [courses EXCEPT ![i] = EnrollCourseWrite(@)]
        /\ tasks' = [tasks EXCEPT ![t] =
               Done(task, Res("dict", TRUE, "Successfully enrolled in course", <<>>, <<>>))]
        /\ UNCHANGED <<students, clock, nextOid, calls>>

(***************************************************************************)
(* unenroll_student.                                                       *)
(***************************************************************************)
CallUnenroll(t, cids, sids, tenants) ==
    \E course_id \in cids, student_id \in sids, tenantId \in tenants :
        /\ CanCall(t)
        /\ calls' = calls + 1
        /\ tasks' = [tasks EXCEPT ![t] =
               ValidateIds([IdleTask EXCEPT !.op = "unenroll_student",
                                            !.course_id = course_id,
                                            !.student_id = student_id,
                                            !.tenantId = tenantId],
                           "u_findCourse")]
        /\ UNCHANGED <<courses, students, clock, nextOid>>

UnenrollFindCourse(t) ==
    LET task == tasks[t]
        course == FindOneIdTenant(courses, ObjectId(task.course_id), task.tenantId)
    IN  /\ task.pc = "u_findCourse"
        /\ tasks' = [tasks EXCEPT ![t] =
               AfterFindCourse(task, course, "u_findStudent",
                   Done(task, Res("dict", FALSE, "Course not found with ID",
                        task.course_id, <<>>)))]
        /\ UNCHANGED <<courses, students, clock, nextOid, calls>>

\* unenroll_student without its not-enrolled check
AfterUnenrollCheckMissing(task, student) ==
    [task EXCEPT !.pc = "u_pull", !.student = student]

\* the not-enrolled check of unenroll_student on the student it read
AfterUnenrollCheck(task, student) ==
    IF ~IsEnrolled(student[1], task.course_id)
    THEN Done([task EXCEPT !.student = student],
              Res("dict", FALSE, "Student is not enrolled in this course", <<>>, <<>>))
    ELSE [task EXCEPT !.pc = "u_pull", !.student = student]

UnenrollFindStudent(t) ==
    LET task == tasks[t]
        student == FindOneIdTenant(students, ObjectId(task.student_id), task.tenantId)
    IN  /\ task.pc = "u_findStudent"
        /\ tasks' = [tasks EXCEPT ![t] =
               IF student = <<>>
               THEN Done(task, Res("dict", FALSE, "Student not found with ID",
                         task.student_id, <<>>))
               ELSE AfterUnenrollCheck(task, student)]
        /\ UNCHANGED <<courses, students, clock, nextOid, calls>>

\* the write of unenroll_student to the student document: $pull
UnenrollStudentWrite(doc, course_id) == Pull(doc, course_id)

\* the write of unenroll_student to the course document: $inc by -1
UnenrollCourseWrite(doc) == Inc(doc, -1)

UnenrollPull(t) ==
    LET task == tasks[t]
        i == FirstMatch(students, ObjectId(task.student_id), task.tenantId)
    IN  /\ task.pc = "u_pull"
        /\ students' = IF i = 0 THEN students
                       ELSE [students EXCEPT ![i] = UnenrollStudentWrite(@, task.course_id)]
        /\ tasks' = [tasks EXCEPT ![t].pc = "u_dec"]
        /\ UNCHANGED <<courses, clock, nextOid, calls>>

UnenrollDec(t) ==
    LET task == tasks[t]
        i == FirstMatch(courses, ObjectId(task.course_id), task.tenantId)
    IN  /\ task.pc = "u_dec"
        /\ courses' = IF i = 0 THEN courses
                      ELSE [courses EXCEPT ![i] = UnenrollCourseWrite(@)]
        /\ tasks' = [tasks EXCEPT ![t] =
               Done(task, Res("dict", TRUE, "Successfully unenrolled from course", <<>>, <<>>))]
        /\ UNCHANGED <<students, clock, nextOid, calls>>

(***************************************************************************)
(* get_course_by_id, update_course, delete_course.                         *)
(***************************************************************************)
ResNone == Res("None", FALSE, "", <<>>, <<>>)

\* an optional document as a return value: the document with a str _id, or None
ResDoc(found) ==
    IF found = <<>> THEN ResNone ELSE Res("doc", TRUE, "", <<>>, <<WithStrId(found[1])>>)

\* get_course_by_id up to its find_one
EnterGetCourseById(task) ==
    IF ~ObjectIdIsValid(task.course_id) THEN Done(task, ResNone)
    ELSE [task EXCEPT !.pc = "g_findOne"]

CallGetCourseById(t, cids, tenants) ==
    \E course_id \in cids, tenantId \in tenants :
        /\ CanCall(t)
        /\ calls' = calls + 1
        /\ tasks' = [tasks EXCEPT ![t] =
               EnterGetCourseById([IdleTask EXCEPT !.op = "get_course_by_id",
                                                   !.course_id = course_id,
                                                   !.tenantId = tenantId])]
        /\ UNCHANGED <<courses, students, clock, nextOid>>

\* the find_one of get_course_by_id, also when update_course calls it
GetCourseFindOne(t) ==
    LET task == tasks[t]
        course == FindOneIdTenant(courses, ObjectId(task.course_id), task.tenantId)
    IN  /\ task.pc = "g_findOne"
        /\ tasks' = [tasks EXCEPT ![t] = Done(task, ResDoc(course))]
        /\ UNCHANGED <<courses, students, clock, nextOid, calls>>

\* cleaned_data["updatedAt"] = datetime.utcnow()
WithUpdatedAt(cleaned_data, now) ==
    [k \in DOMAIN cleaned_data \cup {"updatedAt"} |->
        IF k = "updatedAt" THEN now ELSE cleaned_data[k]]

\* update_course without the early return on empty cleaned_data
EnterUpdateCourseAlways(task, now) ==
    LET cleaned_data == clean_update_data(task.course_update)
    IN  IF ~ObjectIdIsValid(task.course_id) THEN Done(task, ResNone)
        ELSE [task EXCEPT !.pc = "up_findOneAndUpdate",
                          !.data = WithUpdatedAt(cleaned_data, now)]

\* update_course up to its first store operation
EnterUpdateCourse(task, now) ==
    LET cleaned_data == clean_update_data(task.course_update)
    IN  IF ~ObjectIdIsValid(task.course_id) THEN Done(task, ResNone)
        ELSE IF DOMAIN cleaned_data = {} THEN EnterGetCourseById(task)
        ELSE [task EXCEPT !.pc = "up_findOneAndUpdate",
                          !.data = WithUpdatedAt(cleaned_data, now)]

CallUpdateCourse(t, cids, tenants, payloads) ==
    \E course_id \in cids, tenantId \in tenants, p \in payloads, d \in ClockSteps :
        /\ CanCall(t)
        /\ calls' = calls + 1
        /\ tasks' = [tasks EXCEPT ![t] =
               EnterUpdateCourse([IdleTask EXCEPT !.op = "update_course",
                                                  !.course_id = course_id,
                                                  !.tenantId = tenantId,
                                                  !.course_update = UpdatePayloads[p]],
                                 clock + d)]
        /\ clock' = IF tasks'[t].pc = "up_findOneAndUpdate" THEN clock + d ELSE clock
        /\ UNCHANGED <<courses, students, nextOid>>

UpdateFindOneAndUpdate(t) ==
    LET task == tasks[t]
        i == FirstMatch(courses, ObjectId(task.course_id), task.tenantId)
    IN  /\ task.pc = "up_findOneAndUpdate"
        /\ courses' = IF i = 0 THEN courses
                      ELSE [courses EXCEPT ![i] = SetFields(@, task.data)]
        /\ tasks' = [tasks EXCEPT ![t] =
               Done(task, IF i = 0 THEN ResNone ELSE ResDoc(<<courses'[i]>>))]
        /\ UNCHANGED <<students, clock, nextOid, calls>>

\* delete_course up to its delete_one
EnterDeleteCourse(task) ==
    IF ~ObjectIdIsValid(task.course_id) THEN Done(task, Res("bool", FALSE, "", <<>>, <<>>))
    ELSE [task EXCEPT !.pc = "d_deleteOne"]

CallDeleteCourse(t, cids, tenants) ==
    \E course_id \in cids, tenantId \in tenants :
        /\ CanCall(t)
        /\ calls' = calls + 1
        /\ tasks' = [tasks EXCEPT ![t] =
               EnterDeleteCourse([IdleTask EXCEPT !.op = "delete_course",
                                                  !.course_id = course_id,
                                                  !.tenantId = tenantId])]
        /\ UNCHANGED <<courses, students, clock, nextOid>>

\* the collection without its i-th document
RemoveAt(coll, i) == SubSeq(coll, 1, i - 1) \o SubSeq(coll, i + 1, Len(coll))

\* a delete_one that also pulls the course id from every student
DeleteOneCascading(t) ==
    LET task == tasks[t]
        i == FirstMatch(courses, ObjectId(task.course_id), task.tenantId)
    IN  /\ task.pc = "d_deleteOne"
        /\ courses' = IF i = 0 THEN courses ELSE RemoveAt(courses, i)
        /\ students' = IF i = 0 THEN students
                       ELSE [j \in 1..Len(students) |-> Pull(students[j], task.course_id)]
        /\ tasks' = [tasks EXCEPT ![t] = Done(task, Res("bool", i # 0, "", <<>>, <<>>))]
        /\ UNCHANGED <<clock, nextOid, calls>>

\* delete_one({"_id": oid, "tenantId": tenantId}); result.deleted_count > 0
DeleteOne(t) ==
    LET task == tasks[t]
        i == FirstMatch(courses, ObjectId(task.course_id), task.tenantId)
    IN  /\ task.pc = "d_deleteOne"
        /\ courses' = IF i = 0 THEN courses ELSE RemoveAt(courses, i)
        /\ tasks' = [tasks EXCEPT ![t] = Done(task, Res("bool", i # 0, "", <<>>, <<>>))]
        /\ UNCHANGED <<students, clock, nextOid, calls>>

(***************************************************************************)
(* get_all_courses and get_student_courses.                                *)
(***************************************************************************)
CallGetAllCourses(t, tenants, queries) ==
    \E tenantId \in tenants, i \in queries :
        /\ CanCall(t)
        /\ calls' = calls + 1
        /\ tasks' = [tasks EXCEPT ![t] =
               [IdleTask EXCEPT !.op = "get_all_courses", !.tenantId = tenantId,
                                !.data = ListQueries[i], !.pc = "l_find"]]
        /\ UNCHANGED <<courses, students, clock, nextOid>>

GetAllFind(t) ==
    LET task == tasks[t]
    IN  /\ task.pc = "l_find"
        /\ tasks' = [tasks EXCEPT ![t] =
               Done(task, Res("list", TRUE, "", <<>>,
                              FindAll(courses, task.tenantId, task.data)))]
        /\ UNCHANGED <<courses, students, clock, nextOid, calls>>

ResList(docs) == Res("list", TRUE, "", <<>>, docs)

\* get_student_courses up to its first find_one
EnterGetStudentCourses(task) ==
    IF ~ObjectIdIsValid(task.student_id) THEN Done(task, ResList(<<>>))
    ELSE [task EXCEPT !.pc = "sc_findStudent"]

CallGetStudentCourses(t, sids, tenants) ==
    \E student_id \in sids, tenantId \in tenants :
        /\ CanCall(t)
        /\ calls' = calls + 1
        /\ tasks' = [tasks EXCEPT ![t] =
               EnterGetStudentCourses([IdleTask EXCEPT !.op = "get_student_courses",
                                                       !.student_id = student_id,
                                                       !.tenantId = tenantId])]
        /\ UNCHANGED <<courses, students, clock, nextOid>>

StudentCoursesFindStudent(t) ==
    LET task == tasks[t]
        student == FindOneIdTenant(students, ObjectId(task.student_id), task.tenantId)
    IN  /\ task.pc = "sc_findStudent"
        /\ tasks' = [tasks EXCEPT ![t] =
               IF student = <<>> THEN Done(task, ResList(<<>>))
               ELSE [task EXCEPT !.pc = "sc_findCourses", !.student = student]]
        /\ UNCHANGED <<courses, students, clock, nextOid, calls>>

\* [ObjectId(cid) for cid in student["enrolledCourses"] if ObjectId.is_valid(cid)]
CourseIdsOf(student_doc) ==
    {ObjectId(student_doc.enrolledCourses[i]) :
        i \in {j \in 1..Len(student_doc.enrolledCourses) :
                  ObjectIdIsValid(student_doc.enrolledCourses[j])}}

StudentCoursesFindCourses(t) ==
    LET task == tasks[t]
    IN  /\ task.pc = "sc_findCourses"
        /\ tasks' = [tasks EXCEPT ![t] =
               Done(task, ResList(FindIn(courses, CourseIdsOf(task.student[1]))))]
        /\ UNCHANGED <<courses, students, clock, nextOid, calls>>

(***************************************************************************)
(* The routers: the HTTP status of PUT and DELETE /courses/{course_id}.    *)
(***************************************************************************)
update_course_status(result) == IF result.kind = "None" THEN 404 ELSE 200

delete_course_status(result) == IF ~result.ok THEN 404 ELSE 204

(***************************************************************************)
(* The caller takes the returned value; the coroutine's frame is freed.    *)
(***************************************************************************)
Return(t) ==
    /\ tasks[t].pc = "done"
    /\ tasks' = [tasks EXCEPT ![t] = IdleTask]
    /\ UNCHANGED <<courses, students, clock, nextOid, calls>>

\* the steps of a started call
Step(t) ==
    \/ EnrollFindCourse(t) \/ EnrollFindCourseAny(t) \/ EnrollFindStudent(t)
    \/ EnrollFindStudentAny(t) \/ EnrollAddToSet(t) \/ EnrollInc(t)
    \/ UnenrollFindCourse(t) \/ UnenrollFindStudent(t) \/ UnenrollPull(t)
    \/ UnenrollDec(t)
    \/ GetCourseFindOne(t) \/ UpdateFindOneAndUpdate(t) \/ DeleteOne(t)
    \/ GetAllFind(t) \/ StudentCoursesFindStudent(t) \/ StudentCoursesFindCourses(t)
    \/ Return(t)

\* the inputs of the calls of a behaviour: the ids passed as course_id (to
\* enroll_student: ecids) and as student_id, the tenants of the callers, the update payloads and the list
\* queries (indices)
AllInputs ==
    [ecids |-> CourseIdArgs, cids |-> CourseIdArgs, sids |-> StudentIdArgs,
     tenants |-> Tenants,
     payloads |-> 1..Len(UpdatePayloads), queries |-> 1..Len(ListQueries)]

\* the ids as the store writes them
StoredIds == {LowerId(n) : n \in 1..NumOids}

\* well-formed ids (enroll_student also with the other spelling), the one
\* tenant the routers resolve, one payload that sanitizes to empty and one
\* that does not, one query
RouterInputs ==
    [ecids |-> ValidIds, cids |-> StoredIds, sids |-> StoredIds, tenants |-> {"tA"},
     payloads |-> {2, 3}, queries |-> {1}]

\* the start of a call with inputs drawn from in
Call(t, in) ==
    \/ CallEnroll(t, in.ecids, in.sids, in.tenants)
    \/ CallUnenroll(t, in.cids, in.sids, in.tenants)
    \/ CallGetCourseById(t, in.cids, in.tenants)
    \/ CallUpdateCourse(t, in.cids, in.tenants, in.payloads)
    \/ CallDeleteCourse(t, in.cids, in.tenants)
    \/ CallGetAllCourses(t, in.tenants, in.queries)
    \/ CallGetStudentCourses(t, in.sids, in.tenants)

\* no call is in flight
Quiescent == \A t \in Tasks : tasks[t].pc = "idle"

(***************************************************************************)
(* Calls in any interleaving, as the routers issue them: well-formed ids   *)
(* and one caller tenant; the documents belong to either tenant.           *)
(***************************************************************************)
Next ==
    \/ create_course
    \/ create_student
    \/ \E t \in Tasks : Call(t, RouterInputs)
    \/ \E t \in Tasks : Step(t)

Spec == Init /\ [][Next]_vars

(***************************************************************************)
(* Calls one after the other, with every input.                            *)
(***************************************************************************)
NextSeq ==
    \/ Quiescent /\ create_course
    \/ Quiescent /\ create_student
    \/ \E t \in Tasks : Quiescent /\ Call(t, AllInputs)
    \/ \E t \in Tasks : Step(t)

SpecSeq == Init /\ [][NextSeq]_vars

(***************************************************************************)
(* Vocabulary of the properties.                                           *)
(***************************************************************************)
\* an enroll_student or unenroll_student call has started and not returned
EnrollmentInFlight ==
    \E t \in Tasks :
        /\ tasks[t].op \in {"enroll_student", "unenroll_student"}
        /\ tasks[t].pc # "done"

\* the student document refers to the course: one of its enrolledCourses
\* entries is a spelling of the course's ObjectId
RefersTo(student_doc, oid) ==
    \E i \in 1..Len(student_doc.enrolledCourses) :
        /\ ObjectIdIsValid(student_doc.enrolledCourses[i])
        /\ ObjectId(student_doc.enrolledCourses[i]) = oid

\* the number of students enrolled in the course with this ObjectId
Membership(oid) ==
    Cardinality({j \in 1..Len(students) : RefersTo(students[j], oid)})

\* task t takes the step
Steps(t) == tasks'[t] # tasks[t]

(***************************************************************************)
(* C1: whenever no enroll_student or unenroll_student call is in flight,   *)
(* every course's enrolledStudents equals the number of students whose     *)
(* enrolledCourses holds the course's id.                                  *)
(***************************************************************************)
C1_CountEqualsMembership ==
    ~EnrollmentInFlight =>
        \A i \in 1..Len(courses) :
            courses[i].enrolledStudents = Membership(courses[i]._id)

(***************************************************************************)
(* C2: every course's enrolledStudents is at least 0 in every reachable    *)
(* state, concurrent unenroll_student calls of one pair included.          *)
(***************************************************************************)
C2_CountNonNegative ==
    \A i \in 1..Len(courses) : courses[i].enrolledStudents >= 0

\* the stored course and the stored student with this ObjectId
StoredCourse(oid) == courses[CHOOSE i \in 1..Len(courses) : courses[i]._id = oid]

StoredStudent(oid) == students[CHOOSE j \in 1..Len(students) : students[j]._id = oid]

MsgEnrolled == "Successfully enrolled in course"

MsgAlreadyEnrolled == "Student is already enrolled in this course"

MsgNotEnrolled == "Student is not enrolled in this course"

C4_UnenrollNotEnrolled ==
    [][\A t \in Tasks :
        /\ (/\ Steps(t)
            /\ tasks'[t].op = "unenroll_student"
            /\ tasks[t].pc \in {"idle", "u_findCourse", "u_findStudent"})
           => (courses' = courses /\ students' = students)
        /\ (/\ Steps(t)
            /\ tasks[t].pc = "u_findStudent"
            /\ \E j \in 1..Len(students) :
                  /\ students[j]._id = ObjectId(tasks[t].student_id)
                  /\ students[j].tenantId = tasks[t].tenantId
                  /\ \A i \in 1..Len(students[j].enrolledCourses) :
                        students[j].enrolledCourses[i] # tasks[t].course_id)
           => (/\ tasks'[t].pc = "done"
               /\ ~tasks'[t].result.ok
               /\ tasks'[t].result.msg = MsgNotEnrolled)
      ]_vars

\* an unenroll_student of a student never enrolled in the course has been
\* refused, the course keeping the count another student's enrollment gave it
C4_Witness ==
    \E t \in Tasks :
        /\ tasks[t].op = "unenroll_student"
        /\ tasks[t].pc = "done"
        /\ tasks[t].result.msg = MsgNotEnrolled
        /\ tasks[t].student[1].enrolledCourses = <<>>
        /\ StoredCourse(tasks[t].course[1]._id).enrolledStudents = tasks[t].course[1].enrolledStudents

CoursesWithId(course_id) ==
    {i \in 1..Len(courses) : courses[i]._id = ObjectId(course_id)}

CoursesOwned(course_id, tenantId) ==
    {i \in CoursesWithId(course_id) : courses[i].tenantId = tenantId}

StudentsWithId(student_id) ==
    {j \in 1..Len(students) : students[j]._id = ObjectId(student_id)}

\* task t starts a call in this step
Starts(t) == tasks[t].pc = "idle" /\ tasks'[t].pc # "idle"

\* task t reaches its return statement in this step
Returns(t) == Steps(t) /\ tasks'[t].pc = "done"

(***************************************************************************)
(* C6: a course keeps the tenantId it was created with, and every document *)
(* get_course_by_id or get_all_courses returns to a caller of tenant B is  *)
(* a stored course of tenant B; get_course_by_id with the correct id of a  *)
(* course of another tenant returns None.                                  *)
(***************************************************************************)
C6_TenantIsolation ==
    [][/\ \A i \in 1..Len(courses), k \in 1..Len(courses') :
              courses'[k]._id = courses[i]._id => courses'[k].tenantId = courses[i].tenantId
       /\ \A t \in Tasks :
              (Returns(t) /\ tasks'[t].op \in {"get_course_by_id", "get_all_courses"}) =>
                  LET task == tasks'[t]
                  IN  /\ \A n \in 1..Len(task.result.docs) :
                             \E i \in 1..Len(courses) :
                                 /\ OidStr(courses[i]._id) = task.result.docs[n]._id
                                 /\ courses[i].tenantId = task.tenantId
                                 /\ task.result.docs[n].tenantId = task.tenantId
                      /\ (/\ task.op = "get_course_by_id"
                          /\ ObjectIdIsValid(task.course_id)
                          /\ CoursesOwned(task.course_id, task.tenantId) = {})
                         => task.result = ResNone
      ]_vars

\* get_course_by_id has returned None for the correct id of a course that
\* another tenant owns
C6_Witness ==
    \E t \in Tasks :
        /\ tasks[t].op = "get_course_by_id"
        /\ tasks[t].pc = "done"
        /\ tasks[t].result = ResNone
        /\ \E i \in 1..Len(courses) :
              /\ OidStr(courses[i]._id) = tasks[t].course_id
              /\ courses[i].tenantId # tasks[t].tenantId

(***************************************************************************)
(* C7: with a well-formed course id, update_course returns None (404) and  *)
(* delete_course returns False (404) when the tenant owns no course with   *)
(* that id, and the courses collection is then left as it was;             *)
(* delete_course returns True (204) exactly when it removed the tenant's   *)
(* record, every other record staying in place.                            *)
(***************************************************************************)
C7_NotFoundLeavesRecords ==
    [][\A t \in Tasks :
        LET task == tasks'[t]
            owned == CoursesOwned(task.course_id, task.tenantId)
        IN  /\ (/\ Returns(t)
                /\ task.op = "update_course"
                /\ ObjectIdIsValid(task.course_id)
                /\ owned = {})
               => (/\ task.result = ResNone
                   /\ update_course_status(task.result) = 404
                   /\ courses' = courses)
            /\ (/\ Returns(t)
                /\ task.op = "delete_course"
                /\ ObjectIdIsValid(task.course_id))
               => (/\ task.result.kind = "bool"
                   /\ task.result.ok = (owned # {})
                   /\ task.result.ok = (courses' # courses)
                   /\ delete_course_status(task.result) = IF owned = {} THEN 404 ELSE 204
                   /\ owned = {} => courses' = courses
                   /\ owned # {} =>
                          /\ Len(courses') = Len(courses) - 1
                          /\ courses' = SelectSeq(courses,
                                 LAMBDA c : ~(c._id = ObjectId(task.course_id)
                                              /\ c.tenantId = task.tenantId)))
      ]_vars

\* delete_course has returned False for the id of a course another tenant
\* owns, and the course is still stored
C7_Witness ==
    \E t \in Tasks :
        /\ tasks[t].op = "delete_course"
        /\ tasks[t].pc = "done"
        /\ ~tasks[t].result.ok
        /\ ObjectIdIsValid(tasks[t].course_id)
        /\ CoursesWithId(tasks[t].course_id) # {}
        /\ CoursesOwned(tasks[t].course_id, tasks[t].tenantId) = {}

MsgCourseOtherTenant == "Course found but belongs to different tenant"

MsgCourseNotFound == "Course not found with ID"

MsgStudentOtherTenant == "Student found but belongs to different tenant"

MsgStudentNotFound == "Student not found with ID"

(***************************************************************************)
(* C8: when enroll_student finds no course (resp. student) with the id     *)
(* under the caller's tenant, it returns success=false with the "found but *)
(* belongs to different tenant" message if a record with that id exists    *)
(* under another tenant and with the different "not found" message if none *)
(* exists at all; a failing enroll_student call writes to neither          *)
(* collection.                                                             *)
(***************************************************************************)
C8_CrossTenantMessage ==
    [][\A t \in Tasks :
        LET task == tasks[t]
            prewrite == {"idle", "e_findCourse", "e_findCourseAny", "e_findStudent",
                         "e_findStudentAny"}
        IN  /\ (Steps(t) /\ tasks'[t].op = "enroll_student" /\ task.pc \in prewrite)
               => (courses' = courses /\ students' = students)
            /\ (Returns(t) /\ task.op = "enroll_student" /\ ~tasks'[t].result.ok)
               => task.pc \in prewrite
            /\ (Steps(t) /\ task.pc = "e_findCourse")
               => (tasks'[t].pc = "e_findCourseAny"
                     <=> CoursesOwned(task.course_id, task.tenantId) = {})
            /\ (Steps(t) /\ task.pc = "e_findCourseAny")
               => (/\ tasks'[t].pc = "done"
                   /\ ~tasks'[t].result.ok
                   /\ tasks'[t].result.msg =
                          IF CoursesWithId(task.course_id) # {}
                          THEN MsgCourseOtherTenant ELSE MsgCourseNotFound
                   /\ MsgCourseOtherTenant # MsgCourseNotFound)
            /\ (Steps(t) /\ task.pc = "e_findStudent")
               => (tasks'[t].pc = "e_findStudentAny"
                     <=> \A j \in StudentsWithId(task.student_id) :
                             students[j].tenantId # task.tenantId)
            /\ (Steps(t) /\ task.pc = "e_findStudentAny")
               => (/\ tasks'[t].pc = "done"
                   /\ ~tasks'[t].result.ok
                   /\ tasks'[t].result.msg =
                          IF StudentsWithId(task.student_id) # {}
                          THEN MsgStudentOtherTenant ELSE MsgStudentNotFound
                   /\ MsgStudentOtherTenant # MsgStudentNotFound)
      ]_vars

\* enroll_student has refused the id of a course that another tenant owns
C8_Witness ==
    \E t \in Tasks :
        /\ tasks[t].op = "enroll_student"
        /\ tasks[t].pc = "done"
        /\ tasks[t].result.msg = MsgCourseOtherTenant
        /\ CoursesWithId(tasks[t].course_id) # {}
        /\ CoursesOwned(tasks[t].course_id, tasks[t].tenantId) = {}

(***************************************************************************)
(* C9: no step of an update_course call whose payload is sanitized to the  *)
(* empty dict by clean_update_data changes the courses collection, and on  *)
(* an existing course of the tenant the call returns the stored record,    *)
(* updatedAt included.                                                     *)
(***************************************************************************)
C9_EmptyUpdateWritesNothing ==
    [][\A t \in Tasks :
        LET task == tasks'[t]
            owned == CoursesOwned(task.course_id, task.tenantId)
        IN  (/\ Steps(t)
             /\ task.op = "update_course"
             /\ DOMAIN clean_update_data(task.course_update) = {})
            => (/\ courses' = courses
                /\ (/\ task.pc = "done"
                    /\ ObjectIdIsValid(task.course_id)
                    /\ owned # {})
                   => (/\ task.result.kind = "doc"
                       /\ \E i \in owned :
                              /\ task.result.docs =
                                     <<[courses[i] EXCEPT !._id = OidStr(@)]>>
                              /\ task.result.docs[1].updatedAt = courses[i].updatedAt
                              /\ courses'[i] = courses[i]))
      ]_vars

\* update_course with a payload of placeholders only has returned the record
\* of the tenant, whose updatedAt is older than the clock
C9_Witness ==
    \E t \in Tasks :
        /\ tasks[t].op = "update_course"
        /\ tasks[t].pc = "done"
        /\ DOMAIN tasks[t].course_update # {}
        /\ DOMAIN clean_update_data(tasks[t].course_update) = {}
        /\ tasks[t].result.kind = "doc"
        /\ tasks[t].result.docs[1].updatedAt < clock
        /\ \E i \in CoursesOwned(tasks[t].course_id, tasks[t].tenantId) :
              courses[i].updatedAt = tasks[t].result.docs[1].updatedAt

(***************************************************************************)
(* C10: a call with a malformed id returns in its first step, before any   *)
(* store operation and with both collections unchanged: enroll_student and *)
(* unenroll_student return success=false with the invalid-course-id        *)
(* message and the course id when the course id is malformed, and with the *)
(* invalid-student-id message and the student id when only the student id  *)
(* is malformed; get_course_by_id and update_course return None,           *)
(* delete_course False and get_student_courses [].                         *)
(***************************************************************************)
C10_MalformedIdRejected ==
    [][\A t \in Tasks :
        Starts(t) =>
            LET task == tasks'[t]
                bad_course == ~ObjectIdIsValid(task.course_id)
                bad_student == ~ObjectIdIsValid(task.student_id)
            IN  /\ (task.op \in {"enroll_student", "unenroll_student"} /\ bad_course)
                   => (/\ task.pc = "done"
                       /\ task.result = Res("dict", FALSE, "Invalid course ID format",
                                            task.course_id, <<>>)
                       /\ courses' = courses /\ students' = students)
                /\ (task.op \in {"enroll_student", "unenroll_student"}
                      /\ ~bad_course /\ bad_student)
                   => (/\ task.pc = "done"
                       /\ task.result = Res("dict", FALSE, "Invalid student ID format",
                                            task.student_id, <<>>)
                       /\ courses' = courses /\ students' = students)
                /\ (task.op \in {"get_course_by_id", "update_course"} /\ bad_course)
                   => (/\ task.pc = "done"
                       /\ task.result.kind = "None"
                       /\ courses' = courses /\ students' = students)
                /\ (task.op = "delete_course" /\ bad_course)
                   => (/\ task.pc = "done"
                       /\ task.result.kind = "bool" /\ ~task.result.ok
                       /\ courses' = courses /\ students' = students)
                /\ (task.op = "get_student_courses" /\ bad_student)
                   => (/\ task.pc = "done"
                       /\ task.result.kind = "list" /\ task.result.docs = <<>>
                       /\ courses' = courses /\ students' = students)
      ]_vars

\* enroll_student has rejected a malformed course id passed with a malformed
\* student id, naming the course id
C10_Witness ==
    \E t \in Tasks :
        /\ tasks[t].op \in {"enroll_student", "unenroll_student"}
        /\ tasks[t].pc = "done"
        /\ ~ObjectIdIsValid(tasks[t].course_id)
        /\ ~ObjectIdIsValid(tasks[t].student_id)
        /\ tasks[t].result.msg = "Invalid course ID format"
        /\ tasks[t].result.id = tasks[t].course_id

(***************************************************************************)
(* C11: the record a create_course step stores has createdAt equal to      *)
(* updatedAt and enrolledStudents equal to 0, whatever enrolledStudents    *)
(* the input carries and however the clock moves between the two           *)
(* utcnow() calls.                                                         *)
(***************************************************************************)
C11_CreatedRecord ==
    [][Len(courses') = Len(courses) + 1 =>
          LET doc == courses'[Len(courses')]
          IN  /\ doc.createdAt = doc.updatedAt
              /\ doc.enrolledStudents = 0
      ]_vars

(***************************************************************************)
(* C12: no step changes the tenantId of a stored course: a course that is  *)
(* stored before and after a step has the same tenantId in both states,    *)
(* whatever update_course payload, enroll_student or unenroll_student call *)
(* the step belongs to.                                                    *)
(***************************************************************************)
C12_TenantIdImmutable ==
    [][\A i \in 1..Len(courses), k \in 1..Len(courses') :
          courses'[k]._id = courses[i]._id => courses'[k].tenantId = courses[i].tenantId
      ]_vars

\* update_course has written a new title to a course of the caller's tenant
\* and enroll_student has raised its count; the tenantId is still the caller's
C12_Witness ==
    \E t \in Tasks :
        /\ tasks[t].op = "update_course"
        /\ tasks[t].pc = "done"
        /\ tasks[t].result.kind = "doc"
        /\ "title" \in DOMAIN tasks[t].data
        /\ \E i \in CoursesOwned(tasks[t].course_id, tasks[t].tenantId) :
              /\ courses[i].title = tasks[t].data.title
              /\ courses[i].enrolledStudents = 1

(***************************************************************************)
(* C16: no step of a delete_course call changes the students collection,   *)
(* and the courses collection after the step is the one before it, without *)
(* the tenant's course of the given id when there is one; a student's      *)
(* enrolledCourses can so keep the id of a deleted course.                 *)
(***************************************************************************)
C16_DeleteDoesNotCascade ==
    [][\A t \in Tasks :
        LET task == tasks'[t]
        IN  (Steps(t) /\ task.op = "delete_course") =>
                /\ students' = students
                /\ nextOid' = nextOid /\ clock' = clock
                /\ \/ courses' = courses
                   \/ /\ ObjectIdIsValid(task.course_id)
                      /\ Len(courses') = Len(courses) - 1
                      /\ courses' = SelectSeq(courses,
                             LAMBDA c : ~(c._id = ObjectId(task.course_id)
                                          /\ c.tenantId = task.tenantId))
      ]_vars

\* delete_course has removed a course whose id a student's enrolledCourses
\* still holds
C16_Witness ==
    \E t \in Tasks :
        /\ tasks[t].op = "delete_course"
        /\ tasks[t].pc = "done"
        /\ tasks[t].result.ok
        /\ CoursesWithId(tasks[t].course_id) = {}
        /\ \E j \in 1..Len(students) : RefersTo(students[j], ObjectId(tasks[t].course_id))

(***************************************************************************)
(* C17: every course document a get_student_courses(student_id, tenant)    *)
(* call has returned has tenantId equal to tenant, in any interleaving of  *)
(* the operations, although its find on courses filters by _id only.       *)
(***************************************************************************)
C17_StudentCoursesOfTenant ==
    \A t \in Tasks :
        (tasks[t].op = "get_student_courses" /\ tasks[t].pc = "done") =>
            \A n \in 1..Len(tasks[t].result.docs) :
                tasks[t].result.docs[n].tenantId = tasks[t].tenantId

\* get_student_courses has returned the course its student is enrolled in
C17_Witness ==
    \E t \in Tasks :
        /\ tasks[t].op = "get_student_courses"
        /\ tasks[t].pc = "done"
        /\ tasks[t].student # <<>>
        /\ Len(tasks[t].result.docs) = 1
        /\ IsEnrolled(tasks[t].student[1], tasks[t].result.docs[1]._id)

(***************************************************************************)
(* C18: from one state to the next the updatedAt of a stored course never  *)
(* decreases, and it is never earlier than the course's createdAt, under   *)
(* any interleaving of update_course calls.                                *)
(***************************************************************************)
C18_UpdatedAtMonotone ==
    [][\A k \in 1..Len(courses') :
          /\ courses'[k].updatedAt >= courses'[k].createdAt
          /\ \A i \in 1..Len(courses) :
                 courses[i]._id = courses'[k]._id =>
                     courses'[k].updatedAt >= courses[i].updatedAt
      ]_vars

(***************************************************************************)
(* clean_update_data on its own: a coroutine holds an update_dict drawn    *)
(* from the dicts over the keys and values below, sanitizes it, and        *)
(* sanitizes the result once more.                                         *)
(***************************************************************************)
CleanKeys == {"title", "description", "thumbnailUrl", "modules"}

CleanValues ==
    { VNone,
      VStr(<<>>), VStr(<<" ">>), VStr(<<"\t", "\n">>),
      VStr(PlaceholderStr), VStr(<<"S", "t", "r", "i", "n", "g", " ">>),
      VStr(<<" ", "B", "i", "o">>),
      VList(<<>>),
      VList(<<ModuleDict(PlaceholderStr)>>),
      VList(<<ModuleDict(<<" ", "S", "T", "R", "I", "N", "G">>),
              ModuleDict(PlaceholderStr)>>),
      VList(<<ModuleDict(PlaceholderStr), ModuleDict(TitleBio)>>),
      VList(<<ModuleDict(<<>>)>>) }

CleanInputs == UNION {[K -> CleanValues] : K \in SUBSET CleanKeys}

InitClean ==
    /\ courses = <<>>
    /\ students = <<>>
    /\ clock = 0
    /\ nextOid = 1
    /\ calls = 0
    /\ \E update_dict \in CleanInputs :
          tasks = [t \in Tasks |->
                      IF t = 1 THEN [IdleTask EXCEPT !.course_update = update_dict]
                      ELSE IdleTask]

\* cleaned_data = self.clean_update_data(update_data)
CleanOnce ==
    /\ tasks[1].pc = "idle"
    /\ tasks' = [tasks EXCEPT ![1].pc = "cleaned",
                              ![1].op = "clean_update_data",
                              ![1].data = clean_update_data(tasks[1].course_update)]
    /\ UNCHANGED <<courses, students, clock, nextOid, calls>>

\* clean_update_data applied to the dict it returned
CleanAgain ==
    /\ tasks[1].pc = "cleaned"
    /\ tasks' = [tasks EXCEPT ![1].pc = "recleaned",
                              ![1].result =
                                  Res("dict", TRUE, "", <<>>,
                                      <<clean_update_data(tasks[1].data)>>)]
    /\ UNCHANGED <<courses, students, clock, nextOid, calls>>

NextClean == CleanOnce \/ CleanAgain

SpecClean == InitClean /\ [][NextClean]_vars

\* the dict passed to clean_update_data and the dict it returned
CleanIn == tasks[1].course_update

CleanOut == tasks[1].data

Cleaned == tasks[1].pc \in {"cleaned", "recleaned"}

(***************************************************************************)
(* C13: clean_update_data applied to a dict it returned returns that dict. *)
(***************************************************************************)
C13_CleanIdempotent ==
    tasks[1].pc = "recleaned" => tasks[1].result.docs = <<CleanOut>>

\* a dict of which the first pass dropped some entries and kept others has
\* been sanitized twice
C13_Witness ==
    /\ tasks[1].pc = "recleaned"
    /\ DOMAIN CleanOut # {}
    /\ DOMAIN CleanOut # DOMAIN CleanIn
    /\ "thumbnailUrl" \in DOMAIN CleanOut /\ CleanOut.thumbnailUrl = VStr(<<>>)
    /\ "modules" \in DOMAIN CleanOut /\ CleanOut.modules = VList(<<>>)

\* the string rule of the sanitizer, on a key and a None or str value
StringRetained(k, v) ==
    /\ v.kind # "none"
    /\ Lower(Strip(v.s)) # <<"s", "t", "r", "i", "n", "g">>
    /\ (Strip(v.s) # <<>> \/ k = "thumbnailUrl")

(***************************************************************************)
(* C14: clean_update_data returns only entries of its input, unchanged,    *)
(* and an entry (k, v) with v None or a str is in the result exactly when  *)
(* v is not None, v trimmed and lower-cased is not "string", and v does    *)
(* not trim to the empty string or k is thumbnailUrl.  {"title":           *)
(* "String "} and {"description": ""} give {}, {"thumbnailUrl": ""} is     *)
(* returned as it is, and {"thumbnailUrl": "string"} gives {}.             *)
(***************************************************************************)
C14_StringRule ==
    Cleaned =>
        /\ DOMAIN CleanOut \subseteq DOMAIN CleanIn
        /\ \A k \in DOMAIN CleanOut : CleanOut[k] = CleanIn[k]
        /\ \A k \in DOMAIN CleanIn :
              CleanIn[k].kind \in {"none", "str"} =>
                  (k \in DOMAIN CleanOut <=> StringRetained(k, CleanIn[k]))
        /\ (DOMAIN CleanIn = {"title"}
              /\ CleanIn.title = VStr(<<"S", "t", "r", "i", "n", "g", " ">>))
           => DOMAIN CleanOut = {}
        /\ (DOMAIN CleanIn = {"description"} /\ CleanIn.description = VStr(<<>>))
           => DOMAIN CleanOut = {}
        /\ (DOMAIN CleanIn = {"thumbnailUrl"} /\ CleanIn.thumbnailUrl = VStr(<<>>))
           => (DOMAIN CleanOut = {"thumbnailUrl"} /\ CleanOut.thumbnailUrl = VStr(<<>>))
        /\ (DOMAIN CleanIn = {"thumbnailUrl"}
              /\ CleanIn.thumbnailUrl = VStr(<<"s", "t", "r", "i", "n", "g">>))
           => DOMAIN CleanOut = {}

\* {"thumbnailUrl": "", "description": "", "title": "String "} has been
\* sanitized to {"thumbnailUrl": ""}
C14_Witness ==
    /\ Cleaned
    /\ DOMAIN CleanIn = {"thumbnailUrl", "description", "title"}
    /\ CleanIn.thumbnailUrl = VStr(<<>>)
    /\ CleanIn.description = VStr(<<>>)
    /\ CleanIn.title = VStr(<<"S", "t", "r", "i", "n", "g", " ">>)
    /\ DOMAIN CleanOut = {"thumbnailUrl"}

\* every element's title, trimmed and lower-cased, is "string"
AllTitlesArePlaceholder(v) ==
    \A i \in 1..Len(v.items) :
        Lower(Strip(v.items[i].title)) = <<"s", "t", "r", "i", "n", "g">>

(***************************************************************************)
(* C15 as stated: an entry (k, v) with v a list of module dicts is omitted *)
(* when v is non-empty and every element's title trims to "string", is     *)
(* omitted when v is empty and k is not modules, and is otherwise returned *)
(* as it is; {"modules": []} is returned as it is and {"modules":          *)
(* [{"title": "string"}]} gives {}.                                        *)
(***************************************************************************)
C15_ListRuleAsStated ==
    Cleaned =>
        /\ \A k \in DOMAIN CleanIn :
              CleanIn[k].kind = "list" =>
                  LET v == CleanIn[k]
                      omitted == \/ /\ Len(v.items) > 0
                                    /\ \A i \in 1..Len(v.items) :
                                           Strip(v.items[i].title) =
                                               <<"s", "t", "r", "i", "n", "g">>
                                 \/ Len(v.items) = 0 /\ k # "modules"
                  IN  IF omitted THEN k \notin DOMAIN CleanOut
                      ELSE k \in DOMAIN CleanOut /\ CleanOut[k] = v
        /\ (DOMAIN CleanIn = {"modules"} /\ CleanIn.modules = VList(<<>>))
           => (DOMAIN CleanOut = {"modules"} /\ CleanOut.modules = VList(<<>>))
        /\ (DOMAIN CleanIn = {"modules"}
              /\ CleanIn.modules = VList(<<ModuleDict(<<"s", "t", "r", "i", "n", "g">>)>>))
           => DOMAIN CleanOut = {}

(***************************************************************************)
(* C15 amended: an entry (k, v) with v a list of module dicts is omitted   *)
(* when v is non-empty and every element's title, trimmed and lower-cased, *)
(* is "string", is omitted when v is empty and k is not modules, and is    *)
(* otherwise returned as it is; {"modules": []} is returned as it is and   *)
(* {"modules": [{"title": "string"}]} gives {}.                            *)
(***************************************************************************)
C15_ListRule ==
    Cleaned =>
        /\ \A k \in DOMAIN CleanIn :
              CleanIn[k].kind = "list" =>
                  LET v == CleanIn[k]
                      omitted == \/ Len(v.items) > 0 /\ AllTitlesArePlaceholder(v)
                                 \/ Len(v.items) = 0 /\ k # "modules"
                  IN  IF omitted THEN k \notin DOMAIN CleanOut
                      ELSE k \in DOMAIN CleanOut /\ CleanOut[k] = v
        /\ (DOMAIN CleanIn = {"modules"} /\ CleanIn.modules = VList(<<>>))
           => (DOMAIN CleanOut = {"modules"} /\ CleanOut.modules = VList(<<>>))
        /\ (DOMAIN CleanIn = {"modules"}
              /\ CleanIn.modules = VList(<<ModuleDict(<<"s", "t", "r", "i", "n", "g">>)>>))
           => DOMAIN CleanOut = {}

\* a list whose titles are " STRING" and "string" has been dropped, next to
\* an empty modules list that was kept and an empty list under another key
\* that was dropped
C15_Witness ==
    /\ Cleaned
    /\ DOMAIN CleanIn = {"title", "description", "modules"}
    /\ CleanIn.title = VList(<<ModuleDict(<<" ", "S", "T", "R", "I", "N", "G">>),
                               ModuleDict(<<"s", "t", "r", "i", "n", "g">>)>>)
    /\ CleanIn.description = VList(<<>>)
    /\ CleanIn.modules = VList(<<>>)
    /\ DOMAIN CleanOut = {"modules"}

====
